---- MODULE Spec2Model ----
(***************************************************************************)
(* The sticky-notes board of src/src/components/Notes.tsx as a state       *)
(* machine: the component's React state (notes, maxZIndex, dragState), the *)
(* document listeners its drag effect attaches, the localStorage item      *)
(* "sticky-notes", the onNotesChange callback, and the pointer gesture     *)
(* that drives the handlers.  Every handler is one action; the action      *)
(* includes the commit that follows it (both useEffect bodies).            *)
(***************************************************************************)
EXTENDS Integers, Sequences, FiniteSets, TLC

VARIABLES
    notes,          \* useState<Note[]>, Notes.tsx:32
    maxZIndex,      \* useState(100), Notes.tsx:45
    dragState,      \* useState({isDragging, noteId, offset}), Notes.tsx:46
    listeners,      \* document listeners, in registration order, Notes.tsx:98-99
    storage,        \* the localStorage item "sticky-notes"
    lastNotified,   \* what onNotesChange was last called with since the mount
    mounted,        \* the component is rendered and handles events
    uncaught,       \* "none", or where an exception escaped: "render", "effect"
    initialNotes,   \* the initialNotes prop
    clock,          \* Date.now()
    pressed,        \* the pointer gesture: phase, and the element pressed
    last            \* the handler that ran last, with its arguments

vars == <<notes, maxZIndex, dragState, listeners, storage, lastNotified,
          mounted, uncaught, initialNotes, clock, pressed, last>>

(***************************************************************************)
(* Bounds of the model.                                                    *)
(***************************************************************************)
MaxNotes == 2       \* addNote is not taken with this many notes on the board
MaxBumps == 2       \* maxZIndex is not raised beyond InitialMaxZIndex + MaxBumps
MaxClock == 1       \* Date.now() readings are 0 .. MaxClock

(***************************************************************************)
(* Program constants.                                                      *)
(***************************************************************************)
InitialMaxZIndex == 100
NoteWidth == 200
NoteHeight == 200
PickerSize == 4

COLORS == << "#FFE066", "#FF6B6B", "#4ECDC4", "#45B7D1",
             "#96CEB4", "#FFEAA7", "#DDA0DD", "#98D8C8" >>

DefaultContent == "New note..."

(***************************************************************************)
(* Inputs, drawn from small sets.                                          *)
(***************************************************************************)
\* Math.floor(Math.random() * COLORS.length), the values sampled
RandomColorIndexes == {5}
\* (Math.random() * 300, Math.random() * 200), the values sampled
SpawnPoints == { <<50, 50>> }
\* where inside the card the pointer goes down (clientX - rect.left, ...)
GrabOffsets == { <<10, 5>> }
\* (clientX, clientY) of a mousemove
Pointers == { <<-32, -37>>, <<68, 63>> }
\* containerRef.current.getBoundingClientRect(): (left, top)
ContainerRect == <<8, 8>>
\* the swatches clicked, among COLORS.slice(0, PickerSize)
SwatchesClicked == {PickerSize}
\* the texts typed into a textarea
Texts == {"a"}
\* an id string that Date.now().toString() does not give within MaxClock
AbsentId == "999"
\* the null of dragState.noteId
NullId == "null"

Max(a, b) == IF a >= b THEN a ELSE b

(***************************************************************************)
(* Notes and the collection.                                               *)
(***************************************************************************)
Ids(ns) == { ns[i].id : i \in 1..Len(ns) }

RECURSIVE FilterNotes(_, _)
FilterNotes(ns, id) ==
    IF ns = <<>> THEN <<>>
    ELSE IF Head(ns).id # id
         THEN <<Head(ns)>> \o FilterNotes(Tail(ns), id)
         ELSE FilterNotes(Tail(ns), id)

IdleDrag == [isDragging |-> FALSE, noteId |-> NullId, offset |-> <<0, 0>>]

(***************************************************************************)
(* localStorage and JSON.  An item is absent, or a string: the empty       *)
(* string, a text that is not JSON, the JSON text of a value that is not   *)
(* an array, or the JSON text of an array of note records.                 *)
(***************************************************************************)
NoItem == [kind |-> "absent", items |-> <<>>]
EmptyText == [kind |-> "empty", items |-> <<>>]
GarbageText == [kind |-> "garbage", items |-> <<>>]
NonArrayText == [kind |-> "nonarray", items |-> <<>>]

JSONstringify(ns) == [kind |-> "array", items |-> ns]

\* JSON.parse: throws on a text that is not JSON
JSONparse(text) ==
    CASE text.kind = "array" -> [threw |-> FALSE, isArray |-> TRUE, items |-> text.items]
      [] text.kind = "nonarray" -> [threw |-> FALSE, isArray |-> FALSE, items |-> <<>>]
      [] OTHER -> [threw |-> TRUE, isArray |-> FALSE, items |-> <<>>]

\* `if (saved)`: null and "" are falsy
Truthy(item) == item.kind \notin {"absent", "empty"}

\* the useState initializer of notes
InitialNotesState(saved, initial) ==
    IF Truthy(saved)
    THEN LET parsed == JSONparse(saved) IN
         IF parsed.threw
         THEN [isArray |-> TRUE, items |-> initial]
         ELSE [isArray |-> parsed.isArray, items |-> parsed.items]
    ELSE [isArray |-> TRUE, items |-> initial]

\* SaveEffect with the save skipped for an empty collection
SaveEffect_SkipsEmpty(ns, item, notified, fails) ==
    IF fails
    THEN [storage |-> item, notified |-> notified, threw |-> TRUE]
    ELSE IF ns = <<>>
         THEN [storage |-> item, notified |-> notified, threw |-> FALSE]
         ELSE [storage |-> [kind |-> "array", items |-> ns],
               notified |-> [called |-> TRUE, notes |-> ns],
               threw |-> FALSE]

\* The useEffect that saves: setItem, then onNotesChange.  `fails` is
\* whether localStorage.setItem throws (quota exceeded, storage disabled).
SaveEffect(ns, item, notified, fails) ==
    IF fails
    THEN [storage |-> item, notified |-> notified, threw |-> TRUE]
    ELSE [storage |-> JSONstringify(ns),
          notified |-> [called |-> TRUE, notes |-> ns],
          threw |-> FALSE]

NotNotified == [called |-> FALSE, notes |-> <<>>]

(***************************************************************************)
(* The drag listeners' effect: the cleanup of the previous run removes     *)
(* what that run added; the new run adds the listeners while dragging.     *)
(* A mousemove listener is the handleMouseMove closure over dragState     *)
(* (useCallback with [dragState]); handleMouseUp closes over nothing       *)
(* (useCallback with []).  Both effects run in the commit of the event     *)
(* that changed their dependencies, before the next event is handled.      *)
(***************************************************************************)
DragListeners(ds) ==
    IF ds.isDragging
    THEN << [type |-> "mousemove", ds |-> ds], [type |-> "mouseup", ds |-> IdleDrag] >>
    ELSE <<>>

RECURSIVE RemoveListeners(_, _)
RemoveListeners(ls, gone) ==
    IF ls = <<>> THEN <<>>
    ELSE IF \E j \in 1..Len(gone) : gone[j] = Head(ls)
         THEN RemoveListeners(Tail(ls), gone)
         ELSE <<Head(ls)>> \o RemoveListeners(Tail(ls), gone)

\* DragEffect with no cleanup returned
DragEffect_NoCleanup(ls, old, new) ==
    IF old = new THEN ls ELSE ls \o DragListeners(new)

DragEffect(ls, old, new) ==
    IF old = new THEN ls
    ELSE RemoveListeners(ls, DragListeners(old)) \o DragListeners(new)

(***************************************************************************)
(* The handlers, as functions of the state they read.  A discrete event    *)
(* is rendered and committed before the next one is handled, so a handler  *)
(* reads the state the last commit left.  containerRef.current is the      *)
(* workspace element for as long as the component is mounted, so the       *)
(* `if (!containerRect) return` of the two mouse handlers is never taken.  *)
(***************************************************************************)
addNote(ns, maxZ, now, spawn, colorIndex) ==
    LET newNote == [id |-> ToString(now),
                    content |-> DefaultContent,
                    x |-> spawn[1],
                    y |-> spawn[2],
                    width |-> NoteWidth,
                    height |-> NoteHeight,
                    color |-> COLORS[colorIndex + 1],
                    zIndex |-> maxZ + 1]
    IN [notes |-> Append(ns, newNote), maxZIndex |-> maxZ + 1]

deleteNote(ns, id) == FilterNotes(ns, id)

updateNoteContent(ns, id, content) ==
    LET f(note) == IF note.id = id THEN [note EXCEPT !.content = content] ELSE note
    IN [i \in 1..Len(ns) |-> f(ns[i])]

\* updateNoteColor with the id test dropped
updateNoteColor_EveryNote(ns, id, color) ==
    LET f(note) == [note EXCEPT !.color = color]
    IN [i \in 1..Len(ns) |-> f(ns[i])]

updateNoteColor(ns, id, color) ==
    LET f(note) == IF note.id = id THEN [note EXCEPT !.color = color] ELSE note
    IN [i \in 1..Len(ns) |-> f(ns[i])]

bringToFront(ns, maxZ, id) ==
    LET newZIndex == maxZ + 1
        f(note) == IF note.id = id THEN [note EXCEPT !.zIndex = newZIndex] ELSE note
    IN [notes |-> [i \in 1..Len(ns) |-> f(ns[i])], maxZIndex |-> newZIndex]

\* e = (clientX, clientY), rect = the card's (left, top)
handleMouseDown(ns, maxZ, noteId, e, rect) ==
    LET front == bringToFront(ns, maxZ, noteId)
    IN [dragState |-> [isDragging |-> TRUE,
                       noteId |-> noteId,
                       offset |-> <<e[1] - rect[1], e[2] - rect[2]>>],
        notes |-> front.notes,
        maxZIndex |-> front.maxZIndex]

\* handleMouseMove with the position not clamped
handleMouseMove_NoClamp(ns, ds, e) ==
    IF ~ds.isDragging \/ ds.noteId \in {NullId, ""}
    THEN [set |-> FALSE, notes |-> ns]
    ELSE LET newX == e[1] - ContainerRect[1] - ds.offset[1]
             newY == e[2] - ContainerRect[2] - ds.offset[2]
             f(note) == IF note.id = ds.noteId
                        THEN [note EXCEPT !.x = newX, !.y = newY]
                        ELSE note
         IN [set |-> TRUE, notes |-> [i \in 1..Len(ns) |-> f(ns[i])]]

\* ds is the dragState the listener closed over
handleMouseMove(ns, ds, e) ==
    IF ~ds.isDragging \/ ds.noteId \in {NullId, ""}
    THEN [set |-> FALSE, notes |-> ns]
    ELSE LET newX == e[1] - ContainerRect[1] - ds.offset[1]
             newY == e[2] - ContainerRect[2] - ds.offset[2]
             f(note) == IF note.id = ds.noteId
                        THEN [note EXCEPT !.x = Max(0, newX), !.y = Max(0, newY)]
                        ELSE note
         IN [set |-> TRUE, notes |-> [i \in 1..Len(ns) |-> f(ns[i])]]

handleMouseUp == IdleDrag

clearAllNotes == <<>>


(***************************************************************************)
(* Mounting: the useState initializers, the first render, the first run    *)
(* of the effects.  The render reads notes.length and calls notes.map, so  *)
(* it throws when the hydrated value is not an array; an exception out of  *)
(* the render or out of an effect unmounts the component.                  *)
(***************************************************************************)
Mount(saved, initial, fails) ==
    LET hydrated == InitialNotesState(saved, initial)
        eff == SaveEffect(hydrated.items, saved, NotNotified, fails)
        threw == IF ~hydrated.isArray THEN "render"
                 ELSE IF eff.threw THEN "effect" ELSE "none"
    IN [notes |-> IF threw = "none" THEN hydrated.items ELSE <<>>,
        maxZIndex |-> InitialMaxZIndex,
        dragState |-> IdleDrag,
        listeners |-> <<>>,
        storage |-> IF threw = "none" THEN eff.storage ELSE saved,
        lastNotified |-> IF threw = "none" THEN eff.notified ELSE NotNotified,
        mounted |-> threw = "none",
        uncaught |-> threw]

Up == [phase |-> "up", target |-> "none", id |-> NullId, color |-> 0]

\* hit: the id the handler was given is the id of a note on the board;
\* saved: what getItem returned to the mount
Ran(op, hit) == [op |-> op, hit |-> hit, saved |-> NoItem]

Mounted(saved) == [op |-> "mount", hit |-> FALSE, saved |-> saved]

SeedNote == [id |-> "seed", content |-> "a", x |-> 0, y |-> 0,
             width |-> NoteWidth, height |-> NoteHeight,
             color |-> COLORS[PickerSize], zIndex |-> 1]

\* what the storage item holds before the first session
InitialItems == {NoItem, EmptyText, GarbageText, NonArrayText}
\* the initialNotes prop the host passes (default [])
InitialNotesProps == { <<>>, <<SeedNote>> }

Init ==
    \E saved \in InitialItems, initial \in InitialNotesProps, fails \in BOOLEAN :
        LET m == Mount(saved, initial, fails) IN
        /\ notes = m.notes
        /\ maxZIndex = m.maxZIndex
        /\ dragState = m.dragState
        /\ listeners = m.listeners
        /\ storage = m.storage
        /\ lastNotified = m.lastNotified
        /\ mounted = m.mounted
        /\ uncaught = m.uncaught
        /\ initialNotes = initial
        /\ clock = 0
        /\ pressed = Up
        /\ last = Mounted(saved)

\* a page reload: the component is constructed again over the same storage
Reload ==
    \E fails \in BOOLEAN :
        LET m == Mount(storage, initialNotes, fails) IN
        /\ notes' = m.notes
        /\ maxZIndex' = m.maxZIndex
        /\ dragState' = m.dragState
        /\ listeners' = m.listeners
        /\ storage' = m.storage
        /\ lastNotified' = m.lastNotified
        /\ mounted' = m.mounted
        /\ uncaught' = m.uncaught
        /\ pressed' = Up
        /\ last' = Mounted(storage)
        /\ UNCHANGED <<initialNotes, clock>>

\* An exception escaped: React unmounts the component, its state is gone and
\* the cleanups of its effects have run.
Unmount(where, left) ==
    /\ mounted' = FALSE
    /\ uncaught' = where
    /\ notes' = <<>>
    /\ maxZIndex' = InitialMaxZIndex
    /\ dragState' = IdleDrag
    /\ listeners' = left

(***************************************************************************)
(* The commit after a handler: the state the handler set, then the         *)
(* effects whose dependencies changed.  setNotes always passes a new       *)
(* array, so the saving effect runs after every handler that calls it.     *)
(***************************************************************************)
Commit(ns, maxZ, ds, notesSet) ==
    \E fails \in (IF notesSet THEN BOOLEAN ELSE {FALSE}) :
        LET eff == IF notesSet
                   THEN SaveEffect(ns, storage, lastNotified, fails)
                   ELSE [storage |-> storage, notified |-> lastNotified, threw |-> FALSE]
            attached == DragEffect(listeners, dragState, ds)
        IN /\ storage' = eff.storage
           /\ lastNotified' = eff.notified
           /\ IF eff.threw
              THEN Unmount("effect", RemoveListeners(attached, DragListeners(ds)))
              ELSE /\ notes' = ns
                   /\ maxZIndex' = maxZ
                   /\ dragState' = ds
                   /\ listeners' = attached
                   /\ UNCHANGED <<mounted, uncaught>>

CanBump == maxZIndex < InitialMaxZIndex + MaxBumps

\* Date.now() advances
Tick ==
    /\ clock < MaxClock
    /\ clock' = clock + 1
    /\ last' = Ran("none", FALSE)
    /\ UNCHANGED <<notes, maxZIndex, dragState, listeners, storage, lastNotified,
                   mounted, uncaught, initialNotes, pressed>>

\* The button goes down on a card or on a child of it.  Only the textarea
\* stops the mousedown; from a swatch or the delete button it bubbles to the
\* card's onMouseDown.
MouseDown ==
    \E i \in 1..Len(notes), target \in {"card", "swatch", "delete", "textarea"},
       off \in GrabOffsets, c \in SwatchesClicked :
        LET note == notes[i]
            rect == <<ContainerRect[1] + note.x, ContainerRect[2] + note.y>>
            e == <<rect[1] + off[1], rect[2] + off[2]>>
            h == handleMouseDown(notes, maxZIndex, note.id, e, rect)
        IN /\ mounted
           /\ pressed.phase = "up"
           /\ target = "swatch" \/ c = PickerSize
           /\ pressed' = [phase |-> "down", target |-> target, id |-> note.id,
                          color |-> IF target = "swatch" THEN c ELSE 0]
           /\ IF target = "textarea"
              THEN /\ last' = Ran("stopPropagation", TRUE)
                   /\ UNCHANGED <<notes, maxZIndex, dragState, listeners, storage,
                                  lastNotified, mounted, uncaught>>
              ELSE /\ CanBump
                   /\ last' = Ran("handleMouseDown", TRUE)
                   /\ Commit(h.notes, h.maxZIndex, h.dragState, TRUE)
           /\ UNCHANGED <<initialNotes, clock>>

\* the document's mousemove listeners, in registration order
RECURSIVE RunMouseMove(_, _, _)
RunMouseMove(ls, ns, e) ==
    IF ls = <<>> THEN [set |-> FALSE, notes |-> ns]
    ELSE IF Head(ls).type = "mousemove"
         THEN LET r == handleMouseMove(ns, Head(ls).ds, e)
                  rest == RunMouseMove(Tail(ls), r.notes, e)
              IN [set |-> r.set \/ rest.set, notes |-> rest.notes]
         ELSE RunMouseMove(Tail(ls), ns, e)

HasListener(ls, type) == \E j \in 1..Len(ls) : ls[j].type = type

MouseMove ==
    \E e \in Pointers :
        LET r == RunMouseMove(listeners, notes, e) IN
        /\ mounted
        /\ pressed.phase # "click"
        /\ IF HasListener(listeners, "mousemove")
           THEN /\ last' = Ran("handleMouseMove", dragState.noteId \in Ids(notes))
                /\ Commit(r.notes, maxZIndex, dragState, r.set)
           ELSE /\ last' = Ran("none", FALSE)
                /\ UNCHANGED <<notes, maxZIndex, dragState, listeners, storage,
                               lastNotified, mounted, uncaught>>
        /\ UNCHANGED <<initialNotes, clock, pressed>>

\* The button goes up, anywhere.  A click follows on a swatch or on the
\* delete button pressed, when it is still rendered.
MouseUp ==
    /\ mounted
    /\ pressed.phase = "down"
    /\ pressed' = IF pressed.target \in {"swatch", "delete"} /\ pressed.id \in Ids(notes)
                  THEN [pressed EXCEPT !.phase = "click"]
                  ELSE Up
    /\ IF HasListener(listeners, "mouseup")
       THEN /\ last' = Ran("handleMouseUp", FALSE)
            /\ Commit(notes, maxZIndex, handleMouseUp, FALSE)
       ELSE /\ last' = Ran("none", FALSE)
            /\ UNCHANGED <<notes, maxZIndex, dragState, listeners, storage,
                           lastNotified, mounted, uncaught>>
    /\ UNCHANGED <<initialNotes, clock>>

\* the onClick of the swatch or of the delete button pressed
Click ==
    /\ mounted
    /\ pressed.phase = "click"
    /\ pressed' = Up
    /\ IF pressed.target = "swatch"
       THEN /\ last' = Ran("updateNoteColor", pressed.id \in Ids(notes))
            /\ Commit(updateNoteColor(notes, pressed.id, COLORS[pressed.color]),
                      maxZIndex, dragState, TRUE)
       ELSE /\ last' = Ran("deleteNote", pressed.id \in Ids(notes))
            /\ Commit(deleteNote(notes, pressed.id), maxZIndex, dragState, TRUE)
    /\ UNCHANGED <<initialNotes, clock>>

\* the delete button activated from the keyboard
KeyDelete ==
    \E i \in 1..Len(notes) :
        /\ mounted
        /\ pressed.phase # "click"
        /\ last' = Ran("deleteNote", TRUE)
        /\ Commit(deleteNote(notes, notes[i].id), maxZIndex, dragState, TRUE)
        /\ UNCHANGED <<initialNotes, clock, pressed>>

\* the textarea's onChange
TypeText ==
    \E i \in 1..Len(notes), text \in Texts :
        /\ mounted
        /\ pressed.phase # "click"
        /\ last' = Ran("updateNoteContent", TRUE)
        /\ Commit(updateNoteContent(notes, notes[i].id, text), maxZIndex, dragState, TRUE)
        /\ UNCHANGED <<initialNotes, clock, pressed>>

\* the toolbar's "+ Add Note"
ClickAdd ==
    \E spawn \in SpawnPoints, colorIndex \in RandomColorIndexes :
        LET a == addNote(notes, maxZIndex, clock, spawn, colorIndex) IN
        /\ mounted
        /\ pressed.phase # "click"
        /\ Len(notes) < MaxNotes
        /\ CanBump
        /\ last' = Ran("addNote", FALSE)
        /\ Commit(a.notes, a.maxZIndex, dragState, TRUE)
        /\ UNCHANGED <<initialNotes, clock, pressed>>

\* the toolbar's "Clear All", rendered while there are notes
ClickClearAll ==
    /\ mounted
    /\ pressed.phase # "click"
    /\ Len(notes) > 0
    /\ last' = Ran("clearAllNotes", FALSE)
    /\ Commit(clearAllNotes, maxZIndex, dragState, TRUE)
    /\ UNCHANGED <<initialNotes, clock, pressed>>

Next ==
    \/ Tick
    \/ MouseDown
    \/ MouseMove
    \/ MouseUp
    \/ Click
    \/ KeyDelete
    \/ TypeText
    \/ ClickAdd
    \/ ClickClearAll
    \/ Reload

Spec == Init /\ [][Next]_vars


(***************************************************************************)
(* The operations called with an id that is the id of no note.  The        *)
(* rendered board never does it (every handler is bound to a rendered      *)
(* note); SpecOps adds these calls to the events of Spec.                  *)
(***************************************************************************)
AllIds == {ToString(t) : t \in 0..MaxClock} \cup {SeedNote.id, AbsentId}

AbsentDelete ==
    \E id \in AllIds \ Ids(notes) :
        /\ mounted
        /\ pressed.phase # "click"
        /\ last' = Ran("deleteNote", FALSE)
        /\ Commit(deleteNote(notes, id), maxZIndex, dragState, TRUE)
        /\ UNCHANGED <<initialNotes, clock, pressed>>

AbsentEdit ==
    \E id \in AllIds \ Ids(notes), text \in Texts :
        /\ mounted
        /\ pressed.phase # "click"
        /\ last' = Ran("updateNoteContent", FALSE)
        /\ Commit(updateNoteContent(notes, id, text), maxZIndex, dragState, TRUE)
        /\ UNCHANGED <<initialNotes, clock, pressed>>

AbsentColor ==
    \E id \in AllIds \ Ids(notes), c \in SwatchesClicked :
        /\ mounted
        /\ pressed.phase # "click"
        /\ last' = Ran("updateNoteColor", FALSE)
        /\ Commit(updateNoteColor(notes, id, COLORS[c]), maxZIndex, dragState, TRUE)
        /\ UNCHANGED <<initialNotes, clock, pressed>>

AbsentBringToFront ==
    \E id \in AllIds \ Ids(notes) :
        LET b == bringToFront(notes, maxZIndex, id) IN
        /\ mounted
        /\ pressed.phase # "click"
        /\ CanBump
        /\ last' = Ran("bringToFront", FALSE)
        /\ Commit(b.notes, b.maxZIndex, dragState, TRUE)
        /\ UNCHANGED <<initialNotes, clock, pressed>>

AbsentMouseDown ==
    \E id \in AllIds \ Ids(notes), off \in GrabOffsets :
        LET rect == ContainerRect
            e == <<rect[1] + off[1], rect[2] + off[2]>>
            h == handleMouseDown(notes, maxZIndex, id, e, rect)
        IN /\ mounted
           /\ pressed.phase = "up"
           /\ CanBump
           /\ pressed' = [phase |-> "down", target |-> "card", id |-> id, color |-> 0]
           /\ last' = Ran("handleMouseDown", FALSE)
           /\ Commit(h.notes, h.maxZIndex, h.dragState, TRUE)
           /\ UNCHANGED <<initialNotes, clock>>

NextOps ==
    \/ Next
    \/ AbsentDelete
    \/ AbsentEdit
    \/ AbsentColor
    \/ AbsentBringToFront
    \/ AbsentMouseDown

SpecOps == Init /\ [][NextOps]_vars


(***************************************************************************)
(* The claims.                                                             *)
(***************************************************************************)

\* C1: on a mounted board, maxZIndex is at least the zIndex of every note.
C1_MaxZIndexBounds ==
    mounted => \A i \in 1..Len(notes) : maxZIndex >= notes[i].zIndex

\* C2: right after handleMouseDown has brought a note to the front, the
\* zIndex of that note is strictly greater than the zIndex of every note
\* with another id.
C2_FrontIsStrictMax ==
    (mounted /\ last.op = "handleMouseDown" /\ last.hit) =>
        \A i, j \in 1..Len(notes) :
            (notes[i].id = dragState.noteId /\ notes[j].id # dragState.noteId)
                => notes[i].zIndex > notes[j].zIndex

MutationOps == {"addNote", "deleteNote", "updateNoteContent", "updateNoteColor",
                "handleMouseDown", "handleMouseMove", "clearAllNotes"}

C4_UniqueIds ==
    mounted => \A i, j \in 1..Len(notes) : i # j => notes[i].id # notes[j].id

\* C5: every note has x >= 0 and y >= 0, and right after a mousemove of a
\* drag the dragged note is at (pointer - container origin - grab offset),
\* each coordinate clamped to at least 0.
C5_PositionsNonNegative ==
    /\ \A i \in 1..Len(notes) : notes[i].x >= 0 /\ notes[i].y >= 0
    /\ (mounted /\ last.op = "handleMouseMove") =>
        \A i \in 1..Len(notes) :
            notes[i].id = dragState.noteId =>
                \E e \in Pointers :
                    /\ notes[i].x = Max(0, e[1] - ContainerRect[1] - dragState.offset[1])
                    /\ notes[i].y = Max(0, e[2] - ContainerRect[2] - dragState.offset[2])

\* C5 witness: a created note (spawned at (50,50)) has been dragged by a
\* pointer left of and above the board, and lies at (0,0).
C5_DraggedToOrigin ==
    /\ mounted
    /\ last.op = "handleMouseMove"
    /\ \E i \in 1..Len(notes) :
        /\ notes[i].id = dragState.noteId
        /\ notes[i].id # SeedNote.id
        /\ notes[i].x = 0
        /\ notes[i].y = 0
        /\ \E e \in Pointers : e[1] - ContainerRect[1] - dragState.offset[1] < 0

\* C6: after a handler that sets the collection, whether or not setItem
\* threw, no exception has escaped and the board is still mounted.
C6_WriteFailureSwallowed ==
    last.op \in MutationOps => (uncaught = "none" /\ mounted)

\* C7: the press of a swatch or of the delete button leaves the drag state,
\* maxZIndex and every note as they were.
C7_PressIsolated ==
    [][ (mounted' /\ pressed.phase = "up" /\ pressed'.phase = "down"
            /\ pressed'.target \in {"swatch", "delete"})
        => (dragState' = dragState /\ maxZIndex' = maxZIndex /\ notes' = notes) ]_vars

\* C8: right after a mount, the render has not thrown, and the collection
\* of the mounted board is the parsed item when the item is the JSON text
\* of an array of notes, and initialNotes otherwise.
C8_Hydration ==
    last.op = "mount" =>
        /\ uncaught # "render"
        /\ mounted => notes = IF last.saved.kind = "array"
                              THEN last.saved.items
                              ELSE initialNotes

AbsentNoOps == {"deleteNote", "updateNoteContent", "updateNoteColor", "handleMouseMove"}

\* C9, as claimed: a handler given an id of no note, when no setItem throws,
\* leaves the collection, maxZIndex and the drag state unchanged.
C9_AbsentIdNoOp ==
    [][ (mounted' /\ ~last'.hit
            /\ last'.op \in AbsentNoOps \cup {"bringToFront", "handleMouseDown"})
        => UNCHANGED <<notes, maxZIndex, dragState>> ]_vars

\* C9, amended: given an id of no note, when no setItem throws, deleteNote,
\* updateNoteContent, updateNoteColor and a mousemove whose dragged id is
\* absent leave the collection, maxZIndex and the drag state unchanged;
\* bringToFront leaves the collection and the drag state unchanged and
\* raises maxZIndex by one; handleMouseDown leaves the collection
\* unchanged, raises maxZIndex by one and sets the drag state to dragging
\* that id.
C9_AbsentIdEffects ==
    [][ /\ (mounted' /\ ~last'.hit /\ last'.op \in AbsentNoOps)
            => UNCHANGED <<notes, maxZIndex, dragState>>
        /\ (mounted' /\ ~last'.hit /\ last'.op = "bringToFront")
            => /\ notes' = notes
               /\ dragState' = dragState
               /\ maxZIndex' = maxZIndex + 1
        /\ (mounted' /\ ~last'.hit /\ last'.op = "handleMouseDown")
            => /\ notes' = notes
               /\ maxZIndex' = maxZIndex + 1
               /\ dragState'.isDragging
               /\ dragState'.noteId = pressed'.id
               /\ dragState'.noteId \notin Ids(notes) ]_vars

\* C9 witness: updateNoteColor was given an id of no note of a board that
\* has notes.
C9_AbsentColorCalled ==
    /\ mounted
    /\ last.op = "updateNoteColor"
    /\ ~last.hit
    /\ notes # <<>>

PositionsDiffer ==
    /\ Len(notes') = Len(notes)
    /\ \E i \in 1..Len(notes) :
        /\ notes'[i].id = notes[i].id
        /\ notes'[i].x # notes[i].x \/ notes'[i].y # notes[i].y

C10_Attached ==
    /\ mounted => listeners = DragListeners(dragState)
    /\ ~mounted => listeners = <<>>
    /\ dragState.isDragging => pressed.phase = "down" /\ pressed.id = dragState.noteId

C10_Step ==
    /\ (mounted' /\ last'.op = "handleMouseDown")
        => /\ ~dragState.isDragging
           /\ dragState'.isDragging
           /\ dragState'.noteId = pressed'.id
           /\ dragState'.offset \in GrabOffsets
    /\ (mounted' /\ last'.op = "handleMouseMove")
        => /\ dragState.isDragging
           /\ dragState' = dragState
    /\ (mounted' /\ pressed.phase = "down" /\ pressed'.phase # "down")
        => /\ dragState' = IdleDrag
           /\ listeners' = <<>>
    /\ (mounted /\ mounted' /\ last'.op # "mount" /\ PositionsDiffer)
        => /\ dragState.isDragging
           /\ last'.op = "handleMouseMove"

\* C10: the listeners attached are those of the current drag state, none
\* when idle; handleMouseDown takes idle to dragging the note pressed, with
\* the grab offset; a mousemove keeps the drag state; the release of the
\* button takes it to idle and leaves no listener; a note's position
\* changes only in a mousemove of a drag.
C10_TwoStateDrag ==
    []C10_Attached /\ [][C10_Step]_vars

\* C10 witness: a drag has moved a created note to (0,0) and has ended.
C10_DragEnded ==
    /\ mounted
    /\ last.op = "handleMouseUp"
    /\ ~dragState.isDragging
    /\ listeners = <<>>
    /\ \E i \in 1..Len(notes) : notes[i].id # SeedNote.id /\ notes[i].x = 0

====
